---- MODULE Spec2Model ----
(***************************************************************************)
(* Model of the sec-insider Form 4 ingestion pipeline:                     *)
(*   sec_insider/form4_parser.py  (Filing Normalizer)                      *)
(*   sec_insider/ingestion.py     (Ingestion Orchestrator)                 *)
(*   sec_insider/models.py        (relational schema and its constraints)  *)
(*   sec_insider/sec_client.py    (Registry Client, retry loop)            *)
(*                                                                         *)
(* Texts are sequences of one-character strings, so that strip(), lower(), *)
(* slicing and strptime() are computed and not assumed.  Python's None is  *)
(* the value None below, which is no text.                                 *)
(***************************************************************************)
EXTENDS Integers, Sequences, FiniteSets, TLC

\* ------------------------------------------------------------------ texts

None == <<"None">>

\* Python truthiness of an Optional[str]: None and "" are falsy.
Truthy(v) == v # None /\ v # <<>>

\* `a or b` on Optional[str] values.
Or(a, b) == IF Truthy(a) THEN a ELSE b

Upper == <<"A", "B", "C", "D", "E", "F", "G", "H", "I", "J", "K", "L", "M",
          "N", "O", "P", "Q", "R", "S", "T", "U", "V", "W", "X", "Y", "Z">>
Lower == <<"a", "b", "c", "d", "e", "f", "g", "h", "i", "j", "k", "l", "m",
          "n", "o", "p", "q", "r", "s", "t", "u", "v", "w", "x", "y", "z">>

LowerChar(c) ==
    IF \E i \in 1..Len(Upper) : Upper[i] = c
    THEN Lower[CHOOSE i \in 1..Len(Upper) : Upper[i] = c]
    ELSE c

UpperChar(c) ==
    IF \E i \in 1..Len(Lower) : Lower[i] = c
    THEN Upper[CHOOSE i \in 1..Len(Lower) : Lower[i] = c]
    ELSE c

\* str.lower() and str.upper()
StrLower(s) == [i \in 1..Len(s) |-> LowerChar(s[i])]
StrUpper(s) == [i \in 1..Len(s) |-> UpperChar(s[i])]

RECURSIVE LStrip(_)
LStrip(s) == IF s # <<>> /\ Head(s) = " " THEN LStrip(Tail(s)) ELSE s

RECURSIVE RStrip(_)
RStrip(s) ==
    IF s # <<>> /\ s[Len(s)] = " " THEN RStrip(SubSeq(s, 1, Len(s) - 1)) ELSE s

\* str.strip()
Strip(s) == RStrip(LStrip(s))

\* s[:n]
Prefix(s, n) == SubSeq(s, 1, IF Len(s) < n THEN Len(s) ELSE n)

Digits == <<"0", "1", "2", "3", "4", "5", "6", "7", "8", "9">>

IsDigit(c) == \E i \in 1..10 : Digits[i] = c

DigitVal(c) == (CHOOSE i \in 1..10 : Digits[i] = c) - 1

AllDigits(s) == s # <<>> /\ \A i \in 1..Len(s) : IsDigit(s[i])

RECURSIVE NumVal(_)
NumVal(s) ==
    IF s = <<>> THEN 0
    ELSE 10 * NumVal(SubSeq(s, 1, Len(s) - 1)) + DigitVal(s[Len(s)])

\* ------------------------------------------------------------------ dates

IsLeap(y) == (y % 4 = 0 /\ y % 100 # 0) \/ y % 400 = 0

DaysInMonth(y, m) ==
    IF m = 2 THEN (IF IsLeap(y) THEN 29 ELSE 28)
    ELSE IF m \in {4, 6, 9, 11} THEN 30 ELSE 31

\* Position of the second "-" of "YYYY-M-D": after a one- or two-digit month.
MonthEnd(s) ==
    IF Len(s) >= 7 /\ s[7] = "-" THEN 6
    ELSE IF Len(s) >= 8 /\ s[8] = "-" THEN 7
    ELSE 0

\* A strptime that takes any day 1..31 in any month.
StrptimeAnyDay(s) ==
    LET me == MonthEnd(s)
        ys == SubSeq(s, 1, 4)
        ms == SubSeq(s, 6, me)
        ds == SubSeq(s, me + 2, Len(s))
    IN  IF /\ Len(s) >= 8
           /\ AllDigits(ys)
           /\ s[5] = "-"
           /\ me # 0
           /\ AllDigits(ms)
           /\ Len(ds) \in {1, 2}
           /\ AllDigits(ds)
           /\ NumVal(ys) >= 1
           /\ NumVal(ms) \in 1..12
           /\ NumVal(ds) \in 1..31
        THEN <<NumVal(ys), NumVal(ms), NumVal(ds)>>
        ELSE None

\* datetime.strptime(value, "%Y-%m-%d").date(), None when it raises:
\* four digits, "-", month 1..12 in one or two digits, "-", day in one or two
\* digits, nothing after it, and the day exists in that month.
Strptime(s) ==
    LET me == MonthEnd(s)
        ys == SubSeq(s, 1, 4)
        ms == SubSeq(s, 6, me)
        ds == SubSeq(s, me + 2, Len(s))
    IN  IF /\ Len(s) >= 8
           /\ AllDigits(ys)
           /\ s[5] = "-"
           /\ me # 0
           /\ AllDigits(ms)
           /\ Len(ds) \in {1, 2}
           /\ AllDigits(ds)
           /\ NumVal(ys) >= 1
           /\ NumVal(ms) \in 1..12
           /\ NumVal(ds) \in 1..DaysInMonth(NumVal(ys), NumVal(ms))
        THEN <<NumVal(ys), NumVal(ms), NumVal(ds)>>
        ELSE None

\* ingestion._parse_date
ParseDate(value) == IF ~Truthy(value) THEN None ELSE Strptime(value)

\* ingestion._normalize_name
NormalizeName(name) == IF Truthy(name) THEN Strip(StrLower(name)) ELSE None

\* --------------------------------------------------------------- decimals

\* A Decimal is <<coefficient, exponent>>: coefficient * 10^exponent.
RECURSIVE Pow10(_)
Pow10(n) == IF n <= 0 THEN 1 ELSE 10 * Pow10(n - 1)

DotAt(s) == IF \E i \in 1..Len(s) : s[i] = "." 
            THEN CHOOSE i \in 1..Len(s) : s[i] = "." /\ \A j \in 1..(i - 1) : s[j] # "."
            ELSE 0

\* The position of the exponent marker of a numeric string, 0 when it has none.
ExpAt(s) == IF \E i \in 1..Len(s) : s[i] \in {"e", "E"}
            THEN CHOOSE i \in 1..Len(s) :
                     s[i] \in {"e", "E"} /\ \A j \in 1..(i - 1) : s[j] \notin {"e", "E"}
            ELSE 0

\* str.replace("_", ""), which the Decimal constructor applies to its argument.
RECURSIVE RemoveUnderscores(_)
RemoveUnderscores(s) ==
    IF s = <<>> THEN <<>>
    ELSE IF Head(s) = "_" THEN RemoveUnderscores(Tail(s))
    ELSE <<Head(s)>> \o RemoveUnderscores(Tail(s))

\* The special values of Decimal, and the decimal.InvalidOperation an
\* operation raises.
NaN == <<"NaN">>
SNaN == <<"sNaN">>
Infinity(sign) == <<"Infinity", sign, "">>
InvalidOperation == <<"decimal.InvalidOperation", "", "", "">>

\* Decimal.is_finite(), Decimal.is_infinite()
IsFinite(d) == Len(d) = 2
IsInfinite(d) == Len(d) = 3

\* The sign a numeric string starts with ("+" when it has none), and the
\* string after its sign.
SignOf(s) == IF s # <<>> /\ Head(s) = "-" THEN "-" ELSE "+"
Unsigned(s) == IF s # <<>> /\ Head(s) \in {"-", "+"} THEN Tail(s) ELSE s

\* The value of a run of digits under a sign.
Signed(sign, digits) == IF sign = "-" THEN 0 - NumVal(digits) ELSE NumVal(digits)

\* An optionally signed run of digits: <<value>>, or <<>> when the text is
\* no such thing.
SignedInt(s) ==
    IF AllDigits(Unsigned(s)) THEN <<Signed(SignOf(s), Unsigned(s))>> ELSE <<>>

\* The finite Decimal of an integer part, a fraction part and an exponent:
\* digits there must be, and the exponent, when written, a signed integer.
Coefficient(sign, ip, fp, exponent) ==
    IF AllDigits(ip \o fp) /\ exponent # <<>>
    THEN <<Signed(sign, ip \o fp), exponent[1] - Len(fp)>>
    ELSE None

\* The mantissa split at its decimal point.
SplitAt(sign, mantissa, dot, exponent) ==
    IF dot = 0 THEN Coefficient(sign, mantissa, <<>>, exponent)
    ELSE Coefficient(sign, SubSeq(mantissa, 1, dot - 1),
                     SubSeq(mantissa, dot + 1, Len(mantissa)), exponent)

\* digits [ "." digits ] with the exponent that follows it.
Scaled(sign, mantissa, exponent) == SplitAt(sign, mantissa, DotAt(mantissa), exponent)

\* The numeric string split at its exponent marker.
FiniteDecimal(sign, body, e) ==
    IF e = 0 THEN Scaled(sign, body, <<0>>)
    ELSE Scaled(sign, SubSeq(body, 1, e - 1), SignedInt(SubSeq(body, e + 1, Len(body))))

\* The names of the special values, in any case, before the numbers.
UnsignedDecimal(sign, body, low) ==
    IF low \in {<<"i", "n", "f">>, <<"i", "n", "f", "i", "n", "i", "t", "y">>}
    THEN Infinity(sign)
    ELSE IF low = <<"n", "a", "n">> THEN NaN
    ELSE IF low = <<"s", "n", "a", "n">> THEN SNaN
    ELSE FiniteDecimal(sign, body, ExpAt(body))

SignedDecimal(s) == UnsignedDecimal(SignOf(s), Unsigned(s), StrLower(Unsigned(s)))

\* Decimal(text): [sign] digits [ "." digits ] [ ("e" | "E") [sign] digits ],
\* [sign] "Inf" | "Infinity" | "NaN" | "sNaN" in any case, underscores
\* ignored; None for any other text (the constructor raises and
\* _parse_decimal returns None).
DecimalOf(text) == SignedDecimal(RemoveUnderscores(text))

\* form4_parser._parse_decimal
ParseDecimal(value) == IF value = None THEN None ELSE DecimalOf(value)

\* Decimal.__mul__ (exact within the context precision of 28 digits): a
\* signaling NaN and infinity times zero raise InvalidOperation, a quiet NaN
\* gives NaN.
DecMul(a, b) ==
    IF a = SNaN \/ b = SNaN THEN InvalidOperation
    ELSE IF a = NaN \/ b = NaN THEN NaN
    ELSE IF IsInfinite(a) \/ IsInfinite(b)
    THEN LET zero(d) == IF IsFinite(d) THEN d[1] = 0 ELSE FALSE
             negative(d) == IF IsFinite(d) THEN d[1] < 0 ELSE d[2] = "-"
         IN  IF zero(a) \/ zero(b) THEN InvalidOperation
             ELSE Infinity(IF negative(a) = negative(b) THEN "+" ELSE "-")
    ELSE <<a[1] * b[1], a[2] + b[2]>>

\* Numeric equality of two Decimals, as the store compares Numeric columns.
DecEq(a, b) ==
    IF IsFinite(a) /\ IsFinite(b)
    THEN LET e == IF a[2] < b[2] THEN a[2] ELSE b[2]
         IN  a[1] * Pow10(a[2] - e) = b[1] * Pow10(b[2] - e)
    ELSE a = b

\* ----------------------------------------------------- Filing Normalizer

\* form4_parser._get_text: None for a missing element or one without text,
\* else the stripped text.  An element of a document is None or its raw text.
GetText(elem) == IF elem = None THEN None ELSE Strip(elem)

TypeBuy == <<"B", "U", "Y">>
TypeSell == <<"S", "E", "L", "L">>
TypeExercise == <<"E", "X", "E", "R", "C", "I", "S", "E">>
TypeOther == <<"O", "T", "H", "E", "R">>

\* form4_parser.TRANSACTION_CODE_MAP and _transaction_type_from_code
TransactionTypeFromCode(code) ==
    IF ~Truthy(code) THEN TypeOther
    ELSE LET c == StrUpper(code)
         IN  IF c = <<"P">> THEN TypeBuy
             ELSE IF c = <<"S">> THEN TypeSell
             ELSE IF c = <<"M">> THEN TypeExercise
             ELSE TypeOther

\* One entry of a transaction table, form4_parser._parse_transactions' loop body.
ParseEntry(root, txn) ==
    LET shares == ParseDecimal(GetText(txn.transactionShares))
        price == ParseDecimal(GetText(txn.transactionPricePerShare))
        code == GetText(txn.transactionCode)
        period == GetText(root.periodOfReport)
    IN  [issuer_cik |-> GetText(root.issuerCik),
         issuer_name |-> GetText(root.issuerName),
         issuer_ticker |-> GetText(root.issuerTradingSymbol),
         filing_date |-> period,
         period_of_report |-> period,
         form_type |-> <<"4">>,
         accession_number |-> Or(GetText(root.accessionNumber), GetText(root.documentType)),
         owner_cik |-> GetText(root.rptOwnerCik),
         owner_name |-> GetText(root.rptOwnerName),
         transaction_date |-> GetText(txn.transactionDate),
         transaction_code |-> code,
         transaction_type |-> TransactionTypeFromCode(code),
         shares_traded |-> shares,
         share_price |-> price,
         transaction_value_usd |->
             IF shares # None /\ price # None THEN DecMul(shares, price) ELSE None]

\* form4_parser._parse_transactions: the non-derivative table's entries, then
\* the derivative table's (a missing table has no entry).
ParseTransactions(root) ==
    [i \in 1..Len(root.nonDerivativeTable) |-> ParseEntry(root, root.nonDerivativeTable[i])]
    \o [i \in 1..Len(root.derivativeTable) |-> ParseEntry(root, root.derivativeTable[i])]

\* parse_form4 without the handler of ET.ParseError, reading what elements
\* the text has.
ParseForm4OfAnyText(raw) == ParseTransactions(raw)

\* parse_form4 lets the InvalidOperation of a product (line 83) escape.
ParseForm4Raises(raw) ==
    /\ raw.wellformed
    /\ \E i \in 1..Len(ParseTransactions(raw)) :
           ParseTransactions(raw)[i].transaction_value_usd = InvalidOperation

\* form4_parser.parse_form4: a raw text that is not well-formed XML gives [].
ParseForm4(raw) == IF ~raw.wellformed THEN <<>> ELSE ParseTransactions(raw)

\* ------------------------------------------------- Ingestion Orchestrator

\* dict.setdefault: sets the key only when the dict has no such key.
SetDefault(d, k, v) == IF k \in DOMAIN d THEN d ELSE d @@ (k :> v)

\* ingestion._apply_metadata_defaults
ApplyDefaults(txn, metadata) ==
    SetDefault(
        SetDefault(
            SetDefault(txn, "filing_date", Prefix(Or(metadata.filed_at, <<>>), 10)),
            "accession_number", metadata.accession_no),
        "form_type", Or(metadata.form_type, <<"4">>))

ApplyMetadataDefaults(transactions, metadata) ==
    [i \in 1..Len(transactions) |-> ApplyDefaults(transactions[i], metadata)]

\* ------------------------------------------------------------- the store
\* A table is the sequence of its rows; a row's id is its position.

\* models.Company: issuer_cik unique and not null, name not null.
CompanyInsertOk(companies, row) ==
    /\ row.issuer_cik # None
    /\ row.name # None
    /\ \A i \in 1..Len(companies) : companies[i].issuer_cik # row.issuer_cik

\* models.Insider: owner_cik unique when not null, name and normalized_name
\* not null.
InsiderInsertOk(insiders, row) ==
    /\ row.name # None
    /\ row.normalized_name # None
    /\ row.owner_cik # None =>
           \A i \in 1..Len(insiders) : insiders[i].owner_cik # row.owner_cik

\* models.InsiderTransaction: the columns declared nullable=False.
TransactionNotNullOk(row) ==
    /\ row.filing_date # None
    /\ row.transaction_date # None
    /\ row.form_type # None
    /\ row.transaction_code # None
    /\ row.transaction_type # None
    /\ row.accession_number # None

\* Two values of one column of a UNIQUE constraint collide: a NULL collides
\* with nothing, another NULL included.
SameText(a, b) == a # None /\ b # None /\ a = b
SameDate(a, b) == a # None /\ b # None /\ a = b
SameId(a, b) == a # 0 /\ b # 0 /\ a = b
SameDecimal(a, b) == a # None /\ b # None /\ DecEq(a, b)

\* models.InsiderTransaction.__table_args__:
\* UniqueConstraint(accession_number, insider_id, transaction_date, shares_traded)
TransactionConflict(r, row) ==
    /\ SameText(r.accession_number, row.accession_number)
    /\ SameId(r.insider_id, row.insider_id)
    /\ SameDate(r.transaction_date, row.transaction_date)
    /\ SameDecimal(r.shares_traded, row.shares_traded)

TransactionUniqueOk(transactions, row) ==
    \A i \in 1..Len(transactions) : ~TransactionConflict(transactions[i], row)

\* str.lstrip("0")
RECURSIVE LStripZeros(_)
LStripZeros(s) == IF s # <<>> /\ Head(s) = "0" THEN LStripZeros(Tail(s)) ELSE s

\* The query with the CIK stripped of its leading zeros, as sec_client builds
\* document URLs: it misses the rows stored under the full CIK.
CompanyQueryStripped(companies, issuer_cik) ==
    {i \in 1..Len(companies) :
        SameText(companies[i].issuer_cik, LStripZeros(issuer_cik))}

\* session.query(Company).filter_by(issuer_cik=...): the ids of the rows found.
CompanyQuery(companies, issuer_cik) ==
    {i \in 1..Len(companies) : SameText(companies[i].issuer_cik, issuer_cik)}

\* ingestion._get_or_create_company, with the flush of the row it adds.
\* err is "IntegrityError" when that flush violates a constraint.
GetOrCreateCompany(companies, issuer_cik, name, ticker) ==
    LET found == CompanyQuery(companies, issuer_cik)
        row == [issuer_cik |-> issuer_cik, name |-> name, ticker |-> ticker]
    IN  IF found = {}
        THEN IF CompanyInsertOk(companies, row)
             THEN [companies |-> Append(companies, row),
                   id |-> Len(companies) + 1, err |-> "none"]
             ELSE [companies |-> companies, id |-> 0, err |-> "IntegrityError"]
        ELSE LET id == CHOOSE i \in found : TRUE
                 c == companies[id]
                 t == IF Truthy(ticker) /\ c.ticker # ticker THEN ticker ELSE c.ticker
                 n == IF Truthy(name) /\ c.name # name THEN name ELSE c.name
             IN  [companies |->
                      [companies EXCEPT ![id] = [c EXCEPT !.ticker = t, !.name = n]],
                  id |-> id, err |-> "none"]

\* The query by normalized name whether or not the record has an owner CIK.
InsiderQueryByName(insiders, owner_cik, normalized_name) ==
    {i \in 1..Len(insiders) :
        SameText(insiders[i].normalized_name, normalized_name)}

\* The query of ingestion._get_or_create_insider: by owner_cik when it is
\* truthy, else by normalized name.
InsiderQuery(insiders, owner_cik, normalized_name) ==
    IF Truthy(owner_cik)
    THEN {i \in 1..Len(insiders) : SameText(insiders[i].owner_cik, owner_cik)}
    ELSE {i \in 1..Len(insiders) :
              SameText(insiders[i].normalized_name, normalized_name)}

\* ingestion._get_or_create_insider, with the flush of the row it adds.
\* one_or_none() raises MultipleResultsFound when the query finds two rows.
GetOrCreateInsider(insiders, owner_cik, owner_name) ==
    LET normalized_name == NormalizeName(owner_name)
        found == InsiderQuery(insiders, owner_cik, normalized_name)
        row == [owner_cik |-> owner_cik, name |-> owner_name,
                normalized_name |-> normalized_name]
    IN  IF Cardinality(found) > 1
        THEN [insiders |-> insiders, id |-> 0, err |-> "MultipleResultsFound"]
        ELSE IF found = {}
        THEN IF InsiderInsertOk(insiders, row)
             THEN [insiders |-> Append(insiders, row),
                   id |-> Len(insiders) + 1, err |-> "none"]
             ELSE [insiders |-> insiders, id |-> 0, err |-> "IntegrityError"]
        ELSE LET id == CHOOSE i \in found : TRUE
                 r == insiders[id]
             IN  [insiders |->
                      IF Truthy(owner_cik) /\ r.owner_cik = None
                      THEN [insiders EXCEPT ![id].owner_cik = owner_cik]
                      ELSE insiders,
                  id |-> id, err |-> "none"]

\* ingestion._create_transaction: the rows it adds to the session, none when
\* the filing date or the transaction date does not resolve.
CreateTransaction(company_id, insider_id, txn) ==
    LET filing_date ==
            IF ParseDate(txn.filing_date) # None THEN ParseDate(txn.filing_date)
            ELSE ParseDate(txn.period_of_report)
        transaction_date == ParseDate(txn.transaction_date)
    IN  IF filing_date = None \/ transaction_date = None
        THEN <<>>
        ELSE <<[company_id |-> company_id,
              insider_id |-> insider_id,
              filing_date |-> filing_date,
              transaction_date |-> transaction_date,
              form_type |-> txn.form_type,
              transaction_code |-> txn.transaction_code,
              transaction_type |-> txn.transaction_type,
              shares_traded |-> txn.shares_traded,
              share_price |-> txn.share_price,
              transaction_value_usd |-> txn.transaction_value_usd,
              accession_number |-> txn.accession_number]>>

\* One record of the loop body of ingestion.ingest_form4_filings (lines
\* 110-117) against the committed tables: resolve the Company and the Insider,
\* flush, add the transaction row, commit.  _commit_with_retry rolls the
\* whole pending transaction back on IntegrityError; an exception raised
\* before the commit leaves ingest, and session.close() drops what is pending.
IngestRecord(db, txn) ==
    LET c == GetOrCreateCompany(db.companies, txn.issuer_cik,
                                Or(txn.issuer_name, <<"U", "n", "k", "n", "o", "w", "n">>),
                                txn.issuer_ticker)
        p == GetOrCreateInsider(db.insiders, txn.owner_cik,
                                Or(txn.owner_name, <<"U", "n", "k", "n", "o", "w", "n">>))
        added == CreateTransaction(c.id, p.id, txn)
        resolved == [db EXCEPT !.companies = c.companies, !.insiders = p.insiders]
        ids == [company_id |-> c.id, insider_id |-> p.id]
    IN  IF c.err # "none"
        THEN [db |-> db, outcome |-> "raised", err |-> c.err,
              company_id |-> 0, insider_id |-> 0]
        ELSE IF p.err # "none"
        THEN [db |-> db, outcome |-> "raised", err |-> p.err,
              company_id |-> c.id, insider_id |-> 0]
        ELSE IF added = <<>>
        THEN [db |-> resolved, outcome |-> "undateable", err |-> "none"] @@ ids
        ELSE IF ~TransactionNotNullOk(added[1])
        THEN [db |-> db, outcome |-> "rejected", err |-> "IntegrityError"] @@ ids
        ELSE IF ~TransactionUniqueOk(db.transactions, added[1])
        THEN [db |-> db, outcome |-> "duplicate", err |-> "IntegrityError"] @@ ids
        ELSE [db |-> [resolved EXCEPT !.transactions = Append(@, added[1])],
              outcome |-> "stored", err |-> "none"] @@ ids

\* ---------------------------------------------------------- Registry Client

\* SecClient.max_retries
max_retries == 3

\* What one physical request can end in: requests.RequestException (a
\* connection error, a timeout), or a response with an HTTP status code.
StatusCodes == {200, 302, 404, 429, 500, 503}
AttemptOutcomes == {0} \cup StatusCodes
RequestException == 0

\* Response.raise_for_status raises HTTPError for 400 <= status < 600.
RaisesForStatus(status) == status >= 400 /\ status < 600

\* The loop body of SecClient._request after the physical request of the
\* given attempt ended in the given outcome, with an off-by-one in the test
\* for the last attempt.
AfterAttemptOffByOne(attempt, outcome) ==
    IF outcome = RequestException
    THEN IF attempt > max_retries THEN "raise" ELSE "continue"
    ELSE IF outcome >= 500
    THEN IF attempt > max_retries /\ RaisesForStatus(outcome)
         THEN "raise_for_status" ELSE "continue"
    ELSE IF outcome >= 400 /\ RaisesForStatus(outcome)
    THEN "raise_for_status"
    ELSE "return"

\* The loop body of SecClient._request with status 429 (too many requests)
\* treated as a failure to retry.
AfterAttemptRetrying429(attempt, outcome) ==
    IF outcome = RequestException
    THEN IF attempt = max_retries THEN "raise" ELSE "continue"
    ELSE IF outcome >= 500 \/ outcome = 429
    THEN IF attempt = max_retries /\ RaisesForStatus(outcome)
         THEN "raise_for_status" ELSE "continue"
    ELSE IF outcome >= 400 /\ RaisesForStatus(outcome)
    THEN "raise_for_status"
    ELSE "return"

\* The loop body of SecClient._request (lines 32-42) after the physical
\* request of the given attempt ended in the given outcome: "raise" re-raises
\* the RequestException, "raise_for_status" raises the response's HTTPError,
\* "return" returns the response, "continue" goes to the next iteration.
AfterAttempt(attempt, outcome) ==
    IF outcome = RequestException
    THEN IF attempt = max_retries THEN "raise" ELSE "continue"
    ELSE IF outcome >= 500
    THEN IF attempt = max_retries /\ RaisesForStatus(outcome)
         THEN "raise_for_status" ELSE "continue"
    ELSE IF outcome >= 400 /\ RaisesForStatus(outcome)
    THEN "raise_for_status"
    ELSE "return"

\* No request is being served.
NoRequest == [pc |-> "idle", method |-> "", attempt |-> 0, slept |-> 0,
              delay |-> <<0, 1>>, result |-> "none", status |-> 0]

\* The state of SecClient._request on entry: the loop starts at attempt 1.
Enter(method) == [NoRequest EXCEPT !.pc = "sleep", !.method = method, !.attempt = 1]

\* The delay of SecClient._sleep in seconds, 1 / max(rate, 1), as the fraction
\* <<numerator, denominator>>; the rate is in tenths of a request per second.
SleepDelay(r) == <<10, IF r > 10 THEN r ELSE 10>>

\* The request state after self._sleep() at the head of the loop body.
SleepResult(r, configured) ==
    [r EXCEPT !.pc = "send", !.slept = @ + 1, !.delay = SleepDelay(configured)]

\* The request state after a loop body that retries at once, without going
\* back to the head of the loop where _sleep is.
SendResultRetryingAtOnce(r, outcome) ==
    LET verdict == AfterAttempt(r.attempt, outcome)
    IN  IF verdict = "return"
        THEN [r EXCEPT !.pc = "returned", !.result = "response", !.status = outcome]
        ELSE IF verdict = "raise"
        THEN [r EXCEPT !.pc = "raised", !.result = "RequestException"]
        ELSE IF verdict = "raise_for_status"
        THEN [r EXCEPT !.pc = "raised", !.result = "HTTPError", !.status = outcome]
        ELSE IF r.attempt < max_retries
        THEN [r EXCEPT !.pc = "send", !.attempt = @ + 1]
        ELSE [r EXCEPT !.pc = "raised", !.result = "RuntimeError"]

\* The request state after session.request(...) ended in the given outcome
\* and the rest of the loop body ran; leaving the loop without a return
\* raises RuntimeError (line 43).
SendResult(r, outcome) ==
    LET verdict == AfterAttempt(r.attempt, outcome)
    IN  IF verdict = "return"
        THEN [r EXCEPT !.pc = "returned", !.result = "response", !.status = outcome]
        ELSE IF verdict = "raise"
        THEN [r EXCEPT !.pc = "raised", !.result = "RequestException"]
        ELSE IF verdict = "raise_for_status"
        THEN [r EXCEPT !.pc = "raised", !.result = "HTTPError", !.status = outcome]
        ELSE IF r.attempt < max_retries
        THEN [r EXCEPT !.pc = "sleep", !.attempt = @ + 1]
        ELSE [r EXCEPT !.pc = "raised", !.result = "RuntimeError"]

\* SecClient._request run to its end against physical requests that end in
\* the given outcomes, in order: the final request state and the outcomes
\* of the requests it made.
RECURSIVE RunRequest(_, _, _, _)
RunRequest(r, made, outcomes, configured) ==
    IF r.pc # "sleep" \/ outcomes = <<>>
    THEN [req |-> r, sent |-> made]
    ELSE RunRequest(SendResult(SleepResult(r, configured), Head(outcomes)),
                    Append(made, Head(outcomes)), Tail(outcomes), configured)

\* _request(method, ...) as its caller sees it.
Request(method, outcomes, configured) ==
    RunRequest(Enter(method), <<>>, outcomes, configured)

\* What the physical requests of one logical request end in, in the runs of
\* ingest: a response, a client error, no response on any attempt.
RequestTraces ==
    {<<200>>, <<404>>, <<RequestException, RequestException, RequestException>>}

\* ------------------------------------------------------------ the registry

MaxFilings == 2
MaxRuns == 2

D1 == <<"2", "0", "2", "4", "-", "0", "1", "-", "0", "5">>
D1Short == <<"2", "0", "2", "4", "-", "1", "-", "5">>
D2 == <<"2", "0", "2", "4", "-", "0", "1", "-", "0", "6">>
DNoSuchDay == <<"2", "0", "2", "3", "-", "0", "2", "-", "2", "9">>
FiledAt == <<"2", "0", "2", "4", "-", "0", "1", "-", "0", "8",
             "T", "0", "9", ":", "3", "0", ":", "0", "0">>

\* A transaction-table entry: a sale of 100 shares at 12.50 on D1.
Sale == [transactionDate |-> D1, transactionCode |-> <<"S">>,
         transactionShares |-> <<"1", "0", "0">>,
         transactionPricePerShare |-> <<"1", "2", ".", "5", "0">>]

\* A Form 4 document as the registry serves it: issuer 01 (ticker A), owner 07
\* "JD", one non-derivative sale, documentType 4 and, as in the registry's
\* documents, no accessionNumber element; primaryDocument is the file name
\* under which the registry's search index lists the document.
BaseDoc ==
    [wellformed |-> TRUE,
     issuerCik |-> <<"0", "1">>, issuerName |-> <<"X">>, issuerTradingSymbol |-> <<"A">>,
     rptOwnerCik |-> <<"0", "7">>, rptOwnerName |-> <<"J", "D">>,
     periodOfReport |-> D1, accessionNumber |-> None, documentType |-> <<"4">>,
     primaryDocument |-> <<"f">>,
     nonDerivativeTable |-> <<Sale>>, derivativeTable |-> <<>>]

\* The same sale written differently (date without padding, 100.0 shares)
\* under ticker B and another spelling of the owner's name, then a purchase
\* on D2.
RespelledDoc ==
    [BaseDoc EXCEPT !.issuerTradingSymbol = <<"B">>,
                    !.rptOwnerName = <<" ", "D", "j">>,
                    !.nonDerivativeTable =
                        <<[Sale EXCEPT !.transactionDate = D1Short,
                                       !.transactionShares = <<"1", "0", "0", ".", "0">>]>>,
                    !.derivativeTable =
                        <<[Sale EXCEPT !.transactionDate = D2,
                                       !.transactionCode = <<"p">>]>>]

\* A line without a share count; the owner's name in lower case.
NoSharesDoc ==
    [BaseDoc EXCEPT !.rptOwnerName = <<"j", "d">>,
                    !.nonDerivativeTable = <<[Sale EXCEPT !.transactionShares = None]>>]

\* The owner given by name only; a second line dated on no day of the calendar.
NameOnlyDoc ==
    [BaseDoc EXCEPT !.rptOwnerCik = None,
                    !.derivativeTable = <<[Sale EXCEPT !.transactionDate = DNoSuchDay]>>]

\* Neither a periodOfReport nor an accessionNumber or documentType element.
NoPeriodDoc == [BaseDoc EXCEPT !.periodOfReport = None, !.documentType = None]

\* Another issuer, without ticker; its first line has no transaction code.
OtherIssuerDoc ==
    [BaseDoc EXCEPT !.issuerCik = <<"0", "2">>, !.issuerName = <<"Y">>,
                    !.issuerTradingSymbol = None,
                    !.nonDerivativeTable =
                        <<[Sale EXCEPT !.transactionCode = None], Sale>>]

\* A text that is not well-formed XML.
MalformedDoc == [BaseDoc EXCEPT !.wellformed = FALSE]

\* A filing the search index lists without the name of its primary document.
UnnamedDoc == [BaseDoc EXCEPT !.primaryDocument = None]

\* The documents the registry may hold; a registry lists its filings by
\* their position in this catalogue.
Catalogue == <<BaseDoc, RespelledDoc, NoSharesDoc, NameOnlyDoc, NoPeriodDoc,
               OtherIssuerDoc, MalformedDoc, UnnamedDoc>>

Docs == {Catalogue[k] : k \in 1..Len(Catalogue)}

\* The metadata entry sec_client.fetch_form4_filings_metadata builds for the
\* i-th filing of the registry: accession numbers are the registry's own.
MetadataOf(i, doc) ==
    [accession_no |-> <<"a", Digits[i + 1]>>,
     filed_at |-> FiledAt,
     form_type |-> <<"4">>,
     cik |-> doc.issuerCik,
     primary_document |-> doc.primaryDocument]

Registries ==
    UNION {[1..n -> 1..Len(Catalogue)] : n \in 1..MaxFilings}

\* ---------------------------------------------------------------- state

VARIABLES
    registry,       \* the registry's filings, in filing order, by catalogue position
    companies,      \* committed rows of table companies
    insiders,       \* committed rows of table insiders
    transactions,   \* committed rows of table insider_transactions
    pc,             \* "idle", "loop" (at a filing), "records" (in a filing), "done", "aborted"
    window,         \* <<lo, hi>>: the filings the run's date window selects
    mi,             \* registry index of the filing the run is at
    ti,             \* index of the filing's record the run is at
    runs,           \* ingest runs started
    rerun,          \* this run follows a completed run over the same window
    atStart,        \* row counts when this run started
    last,           \* the record ingested last and what became of it
    req,            \* the logical request SecClient._request is serving
    sent,           \* the outcomes of its physical requests so far, in order
    rate,           \* config.rate_limit_per_second, in tenths of a request per second
    hits,           \* how many filings the registry's search matches
    fetch,          \* the fetch_form4_filings_metadata or fetch_form4_raw call in progress
    workers,        \* ingestion workers that share the store
    normalized      \* what parse_form4 made of the document given to it last

ingestVars == <<registry, companies, insiders, transactions, pc, window, mi, ti,
                runs, rerun, atStart, last>>

clientVars == <<req, sent>>

fetchVars == <<rate, hits, fetch>>

vars == <<ingestVars, clientVars, fetchVars, workers, normalized>>

db == [companies |-> companies, insiders |-> insiders, transactions |-> transactions]

Counts == <<Len(companies), Len(insiders), Len(transactions)>>

NoLast == [outcome |-> "none", err |-> "none", filing |-> 0, index |-> 0,
           company_id |-> 0, insider_id |-> 0, before |-> <<0, 0, 0>>]

\* Config.rate_limit_per_second defaults to 5.0 requests per second.
DefaultRate == 50

\* No fetch_form4_filings_metadata or fetch_form4_raw call was made.
NoFetch == [op |-> "none", pc |-> "idle", start |-> 0, pages |-> <<>>,
            results |-> <<>>, url |-> <<>>, err |-> "none"]

\* No worker shares the store.
NoWorkers == <<>>

\* parse_form4 was not called.
NotNormalized == [status |-> "none", records |-> <<>>]

\* models.init_db: the tables exist and are empty.
Init ==
    /\ req = NoRequest
    /\ sent = <<>>
    /\ rate = DefaultRate
    /\ hits = 0
    /\ fetch = NoFetch
    /\ workers = NoWorkers
    /\ normalized = NotNormalized
    /\ registry \in Registries
    /\ companies = <<>>
    /\ insiders = <<>>
    /\ transactions = <<>>
    /\ pc = "idle"
    /\ window = <<1, 0>>
    /\ mi = 0
    /\ ti = 0
    /\ runs = 0
    /\ rerun = FALSE
    /\ atStart = <<0, 0, 0>>
    /\ last = NoLast

\* dict.get: None when the dict has no such key.
Get(d, k) == IF k \in DOMAIN d THEN d[k] ELSE None

\* The precondition without the test of the primary document name.
MetadataCompleteButForDocument(metadata) ==
    /\ Truthy(Or(Get(metadata, "accession_no"), Get(metadata, "accessionNumber")))
    /\ Truthy(Get(metadata, "cik"))

\* sec_client.fetch_form4_raw's precondition on the metadata entry (lines
\* 86-89): when it fails the call raises ValueError.
MetadataComplete(metadata) ==
    /\ Truthy(Or(Get(metadata, "accession_no"), Get(metadata, "accessionNumber")))
    /\ Truthy(Get(metadata, "cik"))
    /\ Truthy(Get(metadata, "primary_document"))

\* str.replace("-", "")
RECURSIVE RemoveDashes(_)
RemoveDashes(s) ==
    IF s = <<>> THEN <<>>
    ELSE IF Head(s) = "-" THEN RemoveDashes(Tail(s))
    ELSE <<Head(s)>> \o RemoveDashes(Tail(s))

\* The document URL of fetch_form4_raw (lines 92-94), as the three path
\* segments after /Archives/edgar/data/.
DocumentUrl(metadata) ==
    <<LStripZeros(Get(metadata, "cik")),
      RemoveDashes(Or(Get(metadata, "accession_no"), Get(metadata, "accessionNumber"))),
      Get(metadata, "primary_document")>>

\* The document of the i-th filing of the registry.
DocAt(i) == Catalogue[registry[i]]

\* parse_form4 of each document the registry may hold.
ParsedDocs == [k \in 1..Len(Catalogue) |-> ParseForm4(Catalogue[k])]

\* The records of the i-th filing as the inner loop of ingest_form4_filings
\* sees them: _apply_metadata_defaults(parse_form4(raw), metadata).
RecordsOf(i) ==
    ApplyMetadataDefaults(ParsedDocs[registry[i]], MetadataOf(i, DocAt(i)))

\* The step after a filing's last record: the next filing, or the end of the run.
Advance(i) ==
    IF i < window[2]
    THEN /\ pc' = "loop"
         /\ mi' = i + 1
    ELSE /\ pc' = "done"
         /\ mi' = i

\* ingest_form4_filings up to its loop: get_session and the metadata query.
StartRun(lo, hi, outcomes) ==
    /\ pc \in {"idle", "done", "aborted"}
    /\ runs < MaxRuns
    /\ runs' = runs + 1
    /\ rerun' = (pc = "done" /\ window = <<lo, hi>>)
    /\ atStart' = Counts
    /\ window' = <<lo, hi>>
    /\ ti' = 0
    /\ last' = NoLast
    /\ mi' = lo
    /\ LET r == Request("POST", outcomes, rate)
       IN  /\ r.req.pc \in {"returned", "raised"}
           /\ req' = r.req
           /\ sent' = r.sent
           /\ fetch' = IF r.req.pc = "raised"
                       THEN [NoFetch EXCEPT !.op = "metadata", !.pc = "raised",
                                            !.pages = <<0>>, !.err = r.req.result]
                       ELSE [NoFetch EXCEPT !.op = "metadata", !.pc = "returned",
                                            !.pages = <<0>>,
                                            !.results = [i \in 1..(hi - lo + 1) |-> lo + i - 1]]
           /\ pc' = IF r.req.pc = "raised" THEN "aborted" ELSE "loop"
    /\ UNCHANGED <<registry, companies, insiders, transactions, rate, hits, workers, normalized>>

\* The fetch of one filing in a run that commits once, at its end: an error
\* discards the rows the run has added.
FetchFilingOfBatchedRun(outcomes) ==
    /\ pc = "loop"
    /\ LET metadata == MetadataOf(mi, DocAt(mi))
           r == Request("GET", outcomes, rate)
       IN  IF ~MetadataComplete(metadata)
           THEN /\ fetch' = [NoFetch EXCEPT !.op = "raw", !.pc = "raised",
                                            !.err = "ValueError"]
                /\ pc' = "aborted"
                /\ UNCHANGED <<mi, ti, clientVars, transactions>>
           ELSE /\ r.req.pc \in {"returned", "raised"}
                /\ req' = r.req
                /\ sent' = r.sent
                /\ IF r.req.pc = "raised"
                   THEN /\ fetch' = [NoFetch EXCEPT !.op = "raw", !.pc = "raised",
                                                    !.url = DocumentUrl(metadata),
                                                    !.err = r.req.result]
                        /\ pc' = "aborted"
                        /\ transactions' = SubSeq(transactions, 1, atStart[3])
                        /\ UNCHANGED <<mi, ti>>
                   ELSE /\ fetch' = [NoFetch EXCEPT !.op = "raw", !.pc = "returned",
                                                    !.url = DocumentUrl(metadata)]
                        /\ UNCHANGED transactions
                        /\ IF RecordsOf(mi) = <<>>
                           THEN /\ Advance(mi)
                                /\ UNCHANGED ti
                           ELSE /\ pc' = "records"
                                /\ ti' = 1
                                /\ UNCHANGED mi
    /\ UNCHANGED <<registry, companies, insiders, window, runs,
                   rerun, atStart, last, rate, hits, workers, normalized>>

\* fetch_form4_raw, parse_form4 and _apply_metadata_defaults for one filing.
FetchFiling(outcomes) ==
    /\ pc = "loop"
    /\ LET metadata == MetadataOf(mi, DocAt(mi))
           r == Request("GET", outcomes, rate)
       IN  IF ~MetadataComplete(metadata)
           THEN /\ fetch' = [NoFetch EXCEPT !.op = "raw", !.pc = "raised",
                                            !.err = "ValueError"]
                /\ pc' = "aborted"
                /\ UNCHANGED <<mi, ti, clientVars>>
           ELSE /\ r.req.pc \in {"returned", "raised"}
                /\ req' = r.req
                /\ sent' = r.sent
                /\ IF r.req.pc = "raised"
                   THEN /\ fetch' = [NoFetch EXCEPT !.op = "raw", !.pc = "raised",
                                                    !.url = DocumentUrl(metadata),
                                                    !.err = r.req.result]
                        /\ pc' = "aborted"
                        /\ UNCHANGED <<mi, ti>>
                   ELSE /\ fetch' = [NoFetch EXCEPT !.op = "raw", !.pc = "returned",
                                                    !.url = DocumentUrl(metadata)]
                        /\ IF RecordsOf(mi) = <<>>
                           THEN /\ Advance(mi)
                                /\ UNCHANGED ti
                           ELSE /\ pc' = "records"
                                /\ ti' = 1
                                /\ UNCHANGED mi
    /\ UNCHANGED <<registry, companies, insiders, transactions, window, runs,
                   rerun, atStart, last, rate, hits, workers, normalized>>

\* The body of the inner loop with a commit that lets the IntegrityError of a
\* duplicate leave ingest.
ProcessRecordRaisingOnDuplicate ==
    /\ pc = "records"
    /\ LET r == IngestRecord(db, RecordsOf(mi)[ti])
       IN  /\ companies' = r.db.companies
           /\ insiders' = r.db.insiders
           /\ transactions' = r.db.transactions
           /\ last' = [outcome |-> r.outcome, err |-> r.err,
                       filing |-> mi, index |-> ti, company_id |-> r.company_id,
                       insider_id |-> r.insider_id, before |-> Counts]
           /\ IF r.outcome \in {"raised", "duplicate"}
              THEN /\ pc' = "aborted"
                   /\ UNCHANGED <<mi, ti>>
              ELSE IF ti < Len(RecordsOf(mi))
              THEN /\ ti' = ti + 1
                   /\ UNCHANGED <<pc, mi>>
              ELSE /\ ti' = 0
                   /\ Advance(mi)
    /\ UNCHANGED <<registry, window, runs, rerun, atStart>>
    /\ UNCHANGED <<clientVars, fetchVars, workers, normalized>>

\* The body of the inner loop for the next record of the filing.
ProcessRecord ==
    /\ pc = "records"
    /\ LET r == IngestRecord(db, RecordsOf(mi)[ti])
       IN  /\ companies' = r.db.companies
           /\ insiders' = r.db.insiders
           /\ transactions' = r.db.transactions
           /\ last' = [outcome |-> r.outcome, err |-> r.err,
                       filing |-> mi, index |-> ti, company_id |-> r.company_id,
                       insider_id |-> r.insider_id, before |-> Counts]
           /\ IF r.outcome = "raised"
              THEN /\ pc' = "aborted"
                   /\ UNCHANGED <<mi, ti>>
              ELSE IF ti < Len(RecordsOf(mi))
              THEN /\ ti' = ti + 1
                   /\ UNCHANGED <<pc, mi>>
              ELSE /\ ti' = 0
                   /\ Advance(mi)
    /\ UNCHANGED <<registry, window, runs, rerun, atStart>>
    /\ UNCHANGED <<clientVars, fetchVars, workers, normalized>>

Next ==
    \/ \E lo \in 1..Len(registry), hi \in 1..Len(registry), outcomes \in RequestTraces :
           lo <= hi /\ StartRun(lo, hi, outcomes)
    \/ \E outcomes \in RequestTraces : FetchFiling(outcomes)
    \/ ProcessRecord

Spec == Init /\ [][Next]_vars

\* ------------------------------------------- SecClient._request, by steps

\* A caller enters SecClient._request.
Call(method) ==
    /\ req.pc \in {"idle", "returned", "raised"}
    /\ req' = Enter(method)
    /\ sent' = <<>>
    /\ UNCHANGED <<ingestVars, fetchVars, workers, normalized>>

\* self._sleep() at the head of the loop body.
Sleep ==
    /\ req.pc = "sleep"
    /\ req' = SleepResult(req, rate)
    /\ UNCHANGED <<sent, ingestVars, fetchVars, workers, normalized>>

\* session.request(...) and the rest of the loop body; leaving the loop
\* without a return raises RuntimeError (line 43).
Send(outcome) ==
    /\ req.pc = "send"
    /\ sent' = Append(sent, outcome)
    /\ req' = SendResult(req, outcome)
    /\ UNCHANGED <<ingestVars, fetchVars, workers, normalized>>

InitClient ==
    /\ req = NoRequest
    /\ sent = <<>>
    /\ rate = DefaultRate
    /\ hits = 0
    /\ fetch = NoFetch
    /\ workers = NoWorkers
    /\ normalized = NotNormalized
    /\ registry = <<1>>
    /\ companies = <<>>
    /\ insiders = <<>>
    /\ transactions = <<>>
    /\ pc = "idle"
    /\ window = <<1, 0>>
    /\ mi = 0
    /\ ti = 0
    /\ runs = 0
    /\ rerun = FALSE
    /\ atStart = <<0, 0, 0>>
    /\ last = NoLast

NextClient ==
    \/ \E method \in {"POST", "GET"} : Call(method)
    \/ Sleep
    \/ \E outcome \in AttemptOutcomes : Send(outcome)

SpecClient == InitClient /\ [][NextClient]_vars

\* ------------------- fetch_form4_filings_metadata and fetch_form4_raw, by steps

\* The page size of fetch_form4_filings_metadata.
size == 200

\* The search matches at most MaxPages full pages and one filing more.
MaxPages == 2

\* The numbers of matching filings around the page boundaries.
HitCounts == {n \in 0..(MaxPages * size + 1) : n % size \in {0, 1, size - 1}}

\* The configured rates, in tenths of a request per second: none, one every
\* two seconds, the default.
Rates == {0, 5, DefaultRate}

\* The hits the registry's search returns for the payload {"from": from,
\* "size": size, sort ascending} when it matches n filings: the filings are
\* numbered 1..n in ascending order of filing date.
Page(n, from) ==
    [i \in 1..(IF n - from >= size THEN size ELSE IF n > from THEN n - from ELSE 0)
        |-> from + i]

\* Metadata entries a caller may pass to fetch_form4_raw: a complete one, one
\* with the accession number under the key accessionNumber, and entries that
\* lack the CIK, the accession number, or have an empty primary document name.
CompleteMetadata ==
    [accession_no |-> <<"0", "1", "-", "2", "4", "-", "7">>,
     cik |-> <<"0", "0", "1", "0">>,
     primary_document |-> <<"f">>]

FetchInputs ==
    {CompleteMetadata,
     [accessionNumber |-> <<"0", "1", "-", "2", "4", "-", "7">>,
      cik |-> <<"0", "0", "1", "0">>, primary_document |-> <<"f">>],
     [CompleteMetadata EXCEPT !.cik = None],
     [CompleteMetadata EXCEPT !.accession_no = None],
     [CompleteMetadata EXCEPT !.primary_document = <<>>]}

\* fetch_form4_filings_metadata up to its first request (lines 50-62).
FetchMetadata ==
    /\ fetch.pc \in {"idle", "returned", "raised"}
    /\ fetch' = [NoFetch EXCEPT !.op = "metadata", !.pc = "request", !.pages = <<0>>]
    /\ req' = Enter("POST")
    /\ sent' = <<>>
    /\ UNCHANGED <<ingestVars, rate, hits, workers, normalized>>

\* The loop body of fetch_form4_filings_metadata stopping on any page that
\* is not longer than the page size.
PageResponseStoppingOnFullPage ==
    /\ fetch.op = "metadata"
    /\ fetch.pc = "request"
    /\ req.pc = "returned"
    /\ LET page == Page(hits, fetch.start)
           results == fetch.results \o page
       IN  IF page = <<>>
           THEN /\ fetch' = [fetch EXCEPT !.pc = "returned"]
                /\ UNCHANGED clientVars
           ELSE IF Len(page) <= size
           THEN /\ fetch' = [fetch EXCEPT !.pc = "returned", !.results = results]
                /\ UNCHANGED clientVars
           ELSE /\ fetch' = [fetch EXCEPT !.start = @ + size, !.results = results,
                                          !.pages = Append(@, fetch.start + size)]
                /\ req' = Enter("POST")
                /\ sent' = <<>>
    /\ UNCHANGED <<ingestVars, rate, hits, workers, normalized>>

\* The loop body of fetch_form4_filings_metadata after _request returned
\* (lines 63-81): collect the hits, stop on an empty or short page, else
\* request the next page.
PageResponse ==
    /\ fetch.op = "metadata"
    /\ fetch.pc = "request"
    /\ req.pc = "returned"
    /\ LET page == Page(hits, fetch.start)
           results == fetch.results \o page
       IN  IF page = <<>>
           THEN /\ fetch' = [fetch EXCEPT !.pc = "returned"]
                /\ UNCHANGED clientVars
           ELSE IF Len(page) < size
           THEN /\ fetch' = [fetch EXCEPT !.pc = "returned", !.results = results]
                /\ UNCHANGED clientVars
           ELSE /\ fetch' = [fetch EXCEPT !.start = @ + size, !.results = results,
                                          !.pages = Append(@, fetch.start + size)]
                /\ req' = Enter("POST")
                /\ sent' = <<>>
    /\ UNCHANGED <<ingestVars, rate, hits, workers, normalized>>

\* fetch_form4_raw up to its request (lines 86-96): ValueError when the
\* metadata lacks a required field.
FetchRaw(metadata) ==
    /\ fetch.pc \in {"idle", "returned", "raised"}
    /\ IF ~MetadataComplete(metadata)
       THEN /\ fetch' = [NoFetch EXCEPT !.op = "raw", !.pc = "raised",
                                        !.err = "ValueError"]
            /\ UNCHANGED clientVars
       ELSE /\ fetch' = [NoFetch EXCEPT !.op = "raw", !.pc = "request",
                                        !.url = DocumentUrl(metadata)]
            /\ req' = Enter("GET")
            /\ sent' = <<>>
    /\ UNCHANGED <<ingestVars, rate, hits, workers, normalized>>

\* fetch_form4_raw returns the response's text (line 97).
RawResponse ==
    /\ fetch.op = "raw"
    /\ fetch.pc = "request"
    /\ req.pc = "returned"
    /\ fetch' = [fetch EXCEPT !.pc = "returned"]
    /\ UNCHANGED <<ingestVars, clientVars, rate, hits, workers, normalized>>

\* The exception _request raises leaves the fetch function that called it.
RequestFailed ==
    /\ fetch.pc = "request"
    /\ req.pc = "raised"
    /\ fetch' = [fetch EXCEPT !.pc = "raised", !.err = req.result]
    /\ UNCHANGED <<ingestVars, clientVars, rate, hits, workers, normalized>>

InitFetch ==
    /\ req = NoRequest
    /\ sent = <<>>
    /\ rate \in Rates
    /\ hits \in HitCounts
    /\ fetch = NoFetch
    /\ workers = NoWorkers
    /\ normalized = NotNormalized
    /\ registry = <<1>>
    /\ companies = <<>>
    /\ insiders = <<>>
    /\ transactions = <<>>
    /\ pc = "idle"
    /\ window = <<1, 0>>
    /\ mi = 0
    /\ ti = 0
    /\ runs = 0
    /\ rerun = FALSE
    /\ atStart = <<0, 0, 0>>
    /\ last = NoLast

NextFetch ==
    \/ FetchMetadata
    \/ PageResponse
    \/ \E metadata \in FetchInputs : FetchRaw(metadata)
    \/ RawResponse
    \/ RequestFailed
    \/ Sleep
    \/ \E outcome \in AttemptOutcomes : Send(outcome)

SpecFetch == InitFetch /\ [][NextFetch]_vars

\* The program is sequential: the step that is due is taken.
SpecFetchFair == SpecFetch /\ WF_vars(NextFetch)

\* ------------------------------- two ingestion runs against the same store

\* Each worker is an ingest run with a session of its own: its queries read
\* the committed tables, the rows it flushes stay pending in its database
\* transaction until it commits, and the unique indexes make an INSERT wait
\* for a pending row with the same key and fail once that row is committed.

\* The workers, and how many records each of them processes at most.
Workers == {1, 2}
MaxJobs == 2

\* The registry the workers ingest: BaseDoc, RespelledDoc, NoSharesDoc,
\* OtherIssuerDoc.
RaceRegistry == <<1, 2, 3, 6>>

\* A worker between two records.
IdleWorker == [pc |-> "idle", filing |-> 0, jobs |-> 0, company |-> <<>>,
               company_id |-> 0, touch |-> <<>>, insider |-> <<>>, insider_id |-> 0,
               outcome |-> "none", err |-> "none"]

\* The record worker w is processing: the first one of its filing.
JobOf(w) == RecordsOf(workers[w].filing)[1]

\* The session of a worker whose exception left ingest: session.close()
\* drops what was pending.
Fail(w, error) ==
    [workers EXCEPT ![w].pc = "failed", ![w].err = error, ![w].outcome = "raised",
                    ![w].company = <<>>, ![w].insider = <<>>, ![w].touch = <<>>]

\* The inner loop of ingest_form4_filings takes its next record (line 109).
Begin(w, f) ==
    /\ workers[w].pc \in {"idle", "done"}
    /\ workers[w].jobs < MaxJobs
    /\ workers' = [workers EXCEPT ![w] =
                       [IdleWorker EXCEPT !.pc = "queryCompany", !.filing = f,
                                          !.jobs = workers[w].jobs + 1]]
    /\ UNCHANGED <<ingestVars, clientVars, fetchVars, normalized>>

\* _get_or_create_company, the query (line 28) and, for a row found, the
\* refresh of its ticker and name (lines 34-37), pending until the commit.
QueryCompany(w) ==
    /\ workers[w].pc = "queryCompany"
    /\ LET txn == JobOf(w)
           name == Or(txn.issuer_name, <<"U", "n", "k", "n", "o", "w", "n">>)
           found == CompanyQuery(companies, txn.issuer_cik)
       IN  IF found = {}
           THEN workers' = [workers EXCEPT ![w].pc = "flushCompany"]
           ELSE LET id == CHOOSE i \in found : TRUE
                IN  workers' = [workers EXCEPT
                        ![w].pc = "queryInsider",
                        ![w].company_id = id,
                        ![w].touch = <<[ticker |-> IF Truthy(txn.issuer_ticker)
                                                  THEN txn.issuer_ticker
                                                  ELSE companies[id].ticker,
                                       name |-> name]>>]
    /\ UNCHANGED <<ingestVars, clientVars, fetchVars, normalized>>

\* _get_or_create_company, the INSERT of the new row (lines 30-32).
FlushCompany(w) ==
    /\ workers[w].pc = "flushCompany"
    /\ LET txn == JobOf(w)
           row == [issuer_cik |-> txn.issuer_cik,
                   name |-> Or(txn.issuer_name, <<"U", "n", "k", "n", "o", "w", "n">>),
                   ticker |-> txn.issuer_ticker]
       IN  /\ \A v \in Workers \ {w} :
                  IF workers[v].company = <<>> THEN TRUE
                  ELSE ~SameText(workers[v].company[1].issuer_cik, row.issuer_cik)
           /\ workers' = IF CompanyInsertOk(companies, row)
                         THEN [workers EXCEPT ![w].pc = "queryInsider",
                                              ![w].company = <<row>>]
                         ELSE Fail(w, "IntegrityError")
    /\ UNCHANGED <<ingestVars, clientVars, fetchVars, normalized>>

\* _get_or_create_insider, the query (lines 42-47).
QueryInsider(w) ==
    /\ workers[w].pc = "queryInsider"
    /\ LET txn == JobOf(w)
           owner_name == Or(txn.owner_name, <<"U", "n", "k", "n", "o", "w", "n">>)
           found == InsiderQuery(insiders, txn.owner_cik, NormalizeName(owner_name))
       IN  workers' =
               IF Cardinality(found) > 1 THEN Fail(w, "MultipleResultsFound")
               ELSE IF found = {} THEN [workers EXCEPT ![w].pc = "flushInsider"]
               ELSE [workers EXCEPT ![w].pc = "commit",
                                    ![w].insider_id = CHOOSE i \in found : TRUE]
    /\ UNCHANGED <<ingestVars, clientVars, fetchVars, normalized>>

\* _get_or_create_insider, the INSERT of the new row (lines 49-51).
FlushInsider(w) ==
    /\ workers[w].pc = "flushInsider"
    /\ LET txn == JobOf(w)
           owner_name == Or(txn.owner_name, <<"U", "n", "k", "n", "o", "w", "n">>)
           row == [owner_cik |-> txn.owner_cik, name |-> owner_name,
                   normalized_name |-> NormalizeName(owner_name)]
       IN  /\ \A v \in Workers \ {w} :
                  IF workers[v].insider = <<>> THEN TRUE
                  ELSE ~SameText(workers[v].insider[1].owner_cik, row.owner_cik)
           /\ workers' = IF InsiderInsertOk(insiders, row)
                         THEN [workers EXCEPT ![w].pc = "commit", ![w].insider = <<row>>]
                         ELSE Fail(w, "IntegrityError")
    /\ UNCHANGED <<ingestVars, clientVars, fetchVars, normalized>>

\* _create_transaction and _commit_with_retry (lines 115-117): the pending
\* rows and the transaction row are committed together, or rolled back
\* together on IntegrityError.
Commit(w) ==
    /\ workers[w].pc = "commit"
    /\ LET me == workers[w]
           company_id == IF me.company # <<>> THEN Len(companies) + 1 ELSE me.company_id
           insider_id == IF me.insider # <<>> THEN Len(insiders) + 1 ELSE me.insider_id
           touched == IF me.touch = <<>> THEN companies
                      ELSE [companies EXCEPT ![me.company_id].ticker = me.touch[1].ticker,
                                             ![me.company_id].name = me.touch[1].name]
           added == CreateTransaction(company_id, insider_id, JobOf(w))
           outcome == IF added = <<>> THEN "undateable"
                      ELSE IF ~TransactionNotNullOk(added[1]) THEN "rejected"
                      ELSE IF ~TransactionUniqueOk(transactions, added[1]) THEN "duplicate"
                      ELSE "stored"
       IN  /\ IF outcome \in {"stored", "undateable"}
              THEN /\ companies' = touched \o me.company
                   /\ insiders' = insiders \o me.insider
                   /\ transactions' = transactions \o added
              ELSE UNCHANGED <<companies, insiders, transactions>>
           /\ workers' = [workers EXCEPT
                   ![w].pc = "done", ![w].outcome = outcome,
                   ![w].err = IF outcome \in {"rejected", "duplicate"}
                              THEN "IntegrityError" ELSE "none",
                   ![w].company = <<>>, ![w].insider = <<>>, ![w].touch = <<>>,
                   ![w].company_id = company_id, ![w].insider_id = insider_id]
    /\ UNCHANGED <<registry, pc, window, mi, ti, runs, rerun, atStart, last>>
    /\ UNCHANGED <<clientVars, fetchVars, normalized>>

InitRace ==
    /\ req = NoRequest
    /\ sent = <<>>
    /\ rate = DefaultRate
    /\ hits = 0
    /\ fetch = NoFetch
    /\ workers = [w \in Workers |-> IdleWorker]
    /\ normalized = NotNormalized
    /\ registry = RaceRegistry
    /\ companies = <<>>
    /\ insiders = <<>>
    /\ transactions = <<>>
    /\ pc = "idle"
    /\ window = <<1, 0>>
    /\ mi = 0
    /\ ti = 0
    /\ runs = 0
    /\ rerun = FALSE
    /\ atStart = <<0, 0, 0>>
    /\ last = NoLast

NextRace ==
    \E w \in Workers :
        \/ \E f \in 1..Len(registry) : Begin(w, f)
        \/ QueryCompany(w)
        \/ FlushCompany(w)
        \/ QueryInsider(w)
        \/ FlushInsider(w)
        \/ Commit(w)

SpecRace == InitRace /\ [][NextRace]_vars

\* ------------------------------------------------------------ properties

\* The record ingested last, as parsed from the document and as filled from
\* the metadata, its document and its metadata entry.
LastDoc == DocAt(last.filing)
LastMetadata == MetadataOf(last.filing, LastDoc)
LastParsed == ParseForm4(LastDoc)[last.index]
LastRecord == RecordsOf(last.filing)[last.index]
Acted == last.outcome # "none"
Committed == last.outcome \in {"stored", "undateable"}

\* Two rows carry the same de-duplication tuple, absent share counts included.
SameKey(r, q) ==
    /\ r.accession_number = q.accession_number
    /\ r.insider_id = q.insider_id
    /\ r.transaction_date = q.transaction_date
    /\ \/ r.shares_traded = None /\ q.shares_traded = None
       \/ SameDecimal(r.shares_traded, q.shares_traded)

\* C1: a run over the window of the completed run before it adds no row:
\* the tables have the row counts they had when it started.
C1_SecondRunAddsNoRow ==
    (rerun /\ pc = "done") => Counts = atStart

\* C2: no two stored InsiderTransaction rows have the same (accession_number,
\* insider_id, transaction_date, shares_traded), absent shares included.
C2_UniqueTuple ==
    \A i, j \in 1..Len(transactions) :
        i # j => ~SameKey(transactions[i], transactions[j])

\* C3: what the document did not supply of filing date, accession number and
\* form type is filled from the metadata entry; a record of a document without
\* period of report and accession number is stored with the first ten
\* characters of filed_at as filing date and the metadata's accession number.
C3_MetadataFallback ==
    Acted =>
        /\ LastParsed.filing_date = None =>
               LastRecord.filing_date = Prefix(LastMetadata.filed_at, 10)
        /\ LastParsed.accession_number = None =>
               LastRecord.accession_number = LastMetadata.accession_no
        /\ LastParsed.form_type = None =>
               LastRecord.form_type = LastMetadata.form_type
        /\ (/\ LastParsed.filing_date = None
            /\ LastParsed.accession_number = None
            /\ ParseDate(LastParsed.transaction_date) # None
            /\ LastParsed.transaction_code # None
            /\ last.outcome # "raised")
           => /\ last.outcome = "stored"
              /\ transactions[Len(transactions)].filing_date
                     = ParseDate(Prefix(LastMetadata.filed_at, 10))
              /\ transactions[Len(transactions)].accession_number
                     = LastMetadata.accession_no

\* The stored rows of one record of the i-th filing: the filing's accession
\* number, the record's owner, transaction date and share count.
RowsOf(i, rec) ==
    {k \in 1..Len(transactions) :
        /\ transactions[k].accession_number = MetadataOf(i, DocAt(i)).accession_no
        /\ transactions[k].transaction_date = ParseDate(rec.transaction_date)
        /\ \/ transactions[k].shares_traded = None /\ rec.shares_traded = None
           \/ SameDecimal(transactions[k].shares_traded, rec.shares_traded)
        /\ LET p == insiders[transactions[k].insider_id]
           IN  IF Truthy(rec.owner_cik)
               THEN p.owner_cik = rec.owner_cik
               ELSE p.normalized_name = NormalizeName(rec.owner_name)}

Dated(rec) ==
    /\ ParseDate(rec.transaction_date) # None
    /\ \/ ParseDate(rec.filing_date) # None
       \/ ParseDate(rec.period_of_report) # None

\* C4: after a completed run every dated record of the window has exactly one
\* stored row for its (filing, insider, transaction date, share count), so two
\* filings reporting the same trade have a row each.
C4_OneRowPerFilingRecord ==
    pc = "done" =>
        \A i \in window[1]..window[2] :
            \A k \in 1..Len(RecordsOf(i)) :
                Dated(RecordsOf(i)[k]) =>
                    Cardinality(RowsOf(i, RecordsOf(i)[k])) = 1

\* C5: a record with an owner CIK whose normalized name is that of an Insider
\* row stored without CIK resolves to that row and sets its owner_cik; no
\* Insider row is added.
C5_CikBackfill ==
    (/\ Committed
     /\ Truthy(LastRecord.owner_cik)
     /\ \E i \in 1..last.before[2] :
            /\ insiders[i].normalized_name = NormalizeName(LastRecord.owner_name)
            /\ insiders[i].owner_cik \in {None, LastRecord.owner_cik}
     /\ \A i \in 1..last.before[2] :
            insiders[i].owner_cik = LastRecord.owner_cik =>
                insiders[i].normalized_name = NormalizeName(LastRecord.owner_name))
    => /\ Len(insiders) = last.before[2]
       /\ insiders[last.insider_id].owner_cik = LastRecord.owner_cik
       /\ insiders[last.insider_id].normalized_name
              = NormalizeName(LastRecord.owner_name)

\* C6: after a record with a non-empty ticker is ingested, stored, duplicate
\* or undateable, the Company row of its issuer CIK has that ticker.
C6_TickerOfLatestRecord ==
    (/\ last.outcome \in {"stored", "duplicate", "undateable"}
     /\ Truthy(LastRecord.issuer_ticker))
    => \E i \in 1..Len(companies) :
           /\ companies[i].issuer_cik = LastRecord.issuer_cik
           /\ companies[i].ticker = LastRecord.issuer_ticker

\* C7: no two Company rows have the same issuer CIK, and a record whose
\* issuer CIK is stored resolves to that row and adds no Company row.
C7_OneCompanyPerCik ==
    /\ \A i, j \in 1..Len(companies) :
           i # j => companies[i].issuer_cik # companies[j].issuer_cik
    /\ Acted =>
           \A i \in 1..last.before[1] :
               companies[i].issuer_cik = LastRecord.issuer_cik =>
                   /\ Len(companies) = last.before[1]
                   /\ last.company_id = i

\* A record of a stored issuer was ingested and stored while two companies exist.
C7_Witness ==
    /\ last.outcome = "stored"
    /\ last.company_id \in 1..last.before[1]
    /\ Len(companies) = 2

\* C8: no two Insider rows have the same non-empty owner CIK, and a record
\* whose owner CIK is stored resolves to that row, however its owner name is
\* written, and adds no Insider row.
C8_OneInsiderPerCik ==
    /\ \A i, j \in 1..Len(insiders) :
           (i # j /\ Truthy(insiders[i].owner_cik)) =>
               insiders[i].owner_cik # insiders[j].owner_cik
    /\ (Acted /\ last.company_id # 0 /\ Truthy(LastRecord.owner_cik)) =>
           \A i \in 1..last.before[2] :
               insiders[i].owner_cik = LastRecord.owner_cik =>
                   /\ Len(insiders) = last.before[2]
                   /\ last.insider_id = i

\* A record was stored for an Insider found by CIK whose stored name is not
\* the record's, even after normalization.
C8_Witness ==
    /\ last.outcome = "stored"
    /\ Truthy(LastRecord.owner_cik)
    /\ last.insider_id \in 1..last.before[2]
    /\ insiders[last.insider_id].owner_cik = LastRecord.owner_cik
    /\ insiders[last.insider_id].normalized_name # NormalizeName(LastRecord.owner_name)

\* A day of the calendar.
ValidDate(d) ==
    /\ d # None
    /\ d[1] >= 1
    /\ d[2] \in 1..12
    /\ d[3] >= 1
    /\ d[3] <= (IF d[2] = 2
                THEN (IF (d[1] % 4 = 0 /\ d[1] % 100 # 0) \/ d[1] % 400 = 0 THEN 29 ELSE 28)
                ELSE IF d[2] \in {4, 6, 9, 11} THEN 30 ELSE 31)

\* C9: every stored InsiderTransaction row has a filing date and a
\* transaction date that are days of the calendar, and a record without a
\* transaction date or without a filing date that resolves is not inserted.
C9_OnlyDatedRowsStored ==
    /\ \A k \in 1..Len(transactions) :
           /\ ValidDate(transactions[k].filing_date)
           /\ ValidDate(transactions[k].transaction_date)
    /\ (Acted /\ ~Dated(LastRecord)) =>
           /\ last.outcome \in {"undateable", "raised"}
           /\ Len(transactions) = last.before[3]
    /\ (Acted /\ (LastRecord.transaction_date = None
                  \/ LastRecord.transaction_date = DNoSuchDay
                  \/ (LastRecord.filing_date = None /\ LastRecord.period_of_report = None)))
           => last.outcome \in {"undateable", "raised"}

\* A record dated on no day of the calendar was skipped with rows stored.
C9_Witness ==
    /\ last.outcome = "undateable"
    /\ LastRecord.transaction_date = DNoSuchDay
    /\ Len(transactions) >= 1

\* An attempt failed in a way _request retries: no response, or a status >= 500.
Transient(outcome) == outcome = RequestException \/ outcome >= 500

\* C10: a logical request makes at most max_retries physical attempts; after
\* a transient failure with attempts left it has not ended and the next attempt
\* is due; it returns on the first attempt whose status is below 400, with
\* that response; when every attempt failed, the caller gets the failure of
\* the last one.
C10_BoundedRetry ==
    /\ Len(sent) <= max_retries
    /\ req.attempt <= max_retries
    /\ req.pc \in {"sleep", "send"} =>
           /\ req.attempt = Len(sent) + 1
           /\ \A k \in 1..Len(sent) : Transient(sent[k])
    /\ (sent # <<>> /\ Transient(sent[Len(sent)]) /\ Len(sent) < max_retries) =>
           req.pc \in {"sleep", "send"}
    /\ req.pc = "returned" =>
           /\ sent # <<>>
           /\ sent[Len(sent)] # RequestException /\ sent[Len(sent)] < 400
           /\ \A k \in 1..(Len(sent) - 1) : Transient(sent[k])
           /\ req.result = "response" /\ req.status = sent[Len(sent)]
    /\ (sent # <<>> /\ sent[Len(sent)] # RequestException /\ sent[Len(sent)] < 400) =>
           req.pc = "returned"
    /\ (req.pc = "raised" /\ \A k \in 1..Len(sent) : Transient(sent[k])) =>
           /\ Len(sent) = max_retries
           /\ IF sent[max_retries] = RequestException
              THEN req.result = "RequestException"
              ELSE req.result = "HTTPError" /\ req.status = sent[max_retries]

\* Three attempts failed, a timeout and two server errors, and the caller
\* got the last one's HTTPError.
C10_Witness ==
    /\ req.pc = "raised"
    /\ sent = <<RequestException, 503, 500>>
    /\ req.result = "HTTPError"
    /\ req.status = 500

\* An attempt got a response with a client-error status.
ClientError(outcome) == outcome # RequestException /\ outcome >= 400 /\ outcome < 500

\* C11: an attempt that returns a status in 400-499 is the last physical
\* attempt of its logical request, on whichever attempt it occurs, and the
\* request has ended by raising that response's error.
C11_ClientErrorNotRetried ==
    \A k \in 1..Len(sent) :
        ClientError(sent[k]) =>
            /\ k = Len(sent)
            /\ req.pc = "raised"
            /\ req.result = "HTTPError"
            /\ req.status = sent[k]

\* A 429 on the second attempt, after a timeout, ended the request.
C11_Witness ==
    /\ sent = <<RequestException, 429>>
    /\ req.pc = "raised"
    /\ req.attempt = 2

\* C12: a logical request whose every attempt got no response ends, after
\* max_retries attempts, by raising the RuntimeError of line 43 ("HTTP
\* request failed after retries").
C12_ExhaustedRaisesGenericFailure ==
    (/\ req.pc = "raised"
     /\ \A k \in 1..Len(sent) : sent[k] = RequestException) =>
        /\ Len(sent) = max_retries
        /\ req.result = "RuntimeError"

\* C13: every physical request, of a search page or of a document, a first
\* attempt or a retry, is made right after exactly one pacing delay of
\* 1 / max(rate, 1) seconds: when it is made, the logical request has slept
\* once more than it has sent, and between two physical requests it sleeps.
C13_HardPacing ==
    /\ [](req.slept \in {Len(sent), Len(sent) + 1})
    /\ [][Len(sent') = Len(sent) + 1 =>
            /\ req.pc = "send"
            /\ req.method \in {"POST", "GET"}
            /\ req.slept = Len(sent) + 1
            /\ req'.slept = req.slept
            /\ req.delay[1] * (IF rate > 10 THEN rate ELSE 10) = 10 * req.delay[2]]_vars

\* The retry of a document fetch is due after its second delay, of one
\* second: the rate is one request every two seconds.
C13_Witness ==
    /\ fetch.op = "raw"
    /\ req.pc = "send"
    /\ req.attempt = 2
    /\ req.slept = 2
    /\ Len(sent) = 1
    /\ rate = 5
    /\ req.delay = <<10, 10>>

\* C14: fetch_form4_filings_metadata requests the pages at offsets 0, size,
\* 2*size, ..., never more than the first page shorter than the page size,
\* ends, and when it returns it returns the registry's filings 1..hits, each
\* once, in ascending order, having stopped after that first short page.
C14_TransparentPagination ==
    /\ [](fetch.op = "metadata" =>
            /\ \A k \in 1..Len(fetch.pages) : fetch.pages[k] = (k - 1) * size
            /\ Len(fetch.pages) <= hits \div size + 1
            /\ fetch.pc = "returned" =>
                   /\ fetch.results = [i \in 1..hits |-> i]
                   /\ Len(fetch.pages) = hits \div size + 1)
    /\ (fetch.op = "metadata" /\ fetch.pc = "request")
           ~> (fetch.op = "metadata" /\ fetch.pc \in {"returned", "raised"})

\* Two full pages and an empty third one: 400 filings returned.
C14_Witness ==
    /\ fetch.op = "metadata"
    /\ fetch.pc = "returned"
    /\ hits = 2 * size
    /\ fetch.pages = <<0, size, 2 * size>>
    /\ Len(fetch.results) = 2 * size

\* A text is absent: there is none, or it is empty.
Absent(text) == text = None \/ text = <<>>

\* The metadata entry lacks the issuer CIK, the accession number or the name
\* of the primary document.
LacksRequiredField(metadata) ==
    \/ Absent(Get(metadata, "cik"))
    \/ Absent(Get(metadata, "accession_no")) /\ Absent(Get(metadata, "accessionNumber"))
    \/ Absent(Get(metadata, "primary_document"))

\* C15: fetch_form4_raw on a metadata entry that lacks the CIK, the accession
\* number or the primary document name raises ValueError without a pacing
\* delay or a request, and the ingest run ends there with that error, its
\* stored rows as they were.
C15_MissingMetadata ==
    [][(pc = "loop" /\ LacksRequiredField(MetadataOf(mi, DocAt(mi)))) =>
          /\ fetch'.op = "raw"
          /\ fetch'.pc = "raised"
          /\ fetch'.err = "ValueError"
          /\ UNCHANGED <<req, sent>>
          /\ pc' = "aborted"
          /\ UNCHANGED <<companies, insiders, transactions>>]_vars

\* The run stored the first filing's sale and ended at the second filing,
\* which the search listed without a primary document.
C15_Witness ==
    /\ pc = "aborted"
    /\ fetch.err = "ValueError"
    /\ mi = 2
    /\ Len(transactions) = 1
    /\ req.method = "GET"
    /\ req.slept = 1

\* C16: no step of ingest removes or alters a stored transaction row, and the
\* step in which a run aborts leaves the three tables as they are: the rows
\* the run committed for earlier records stay stored.
C16_CommittedRowsSurviveAbort ==
    [][/\ Len(transactions') >= Len(transactions)
       /\ SubSeq(transactions', 1, Len(transactions)) = transactions
       /\ pc' = "aborted" => UNCHANGED <<companies, insiders, transactions>>]_vars

\* The run stored a row from its first filing and aborted on the client
\* error of the second filing's document fetch.
C16_Witness ==
    /\ pc = "aborted"
    /\ mi = 2
    /\ fetch.op = "raw"
    /\ fetch.err = "HTTPError"
    /\ Len(transactions) = atStart[3] + 1

\* C17: a record whose transaction row has the four-column tuple of a stored
\* row is rolled back: the step leaves the three tables as they are, no error
\* leaves ingest, and the run goes on to the next record of the filing, else
\* to the next filing, else it ends normally.
C17_DuplicateSilentlySkipped ==
    /\ [](last.outcome = "duplicate" =>
            \E k \in 1..Len(transactions) :
                /\ transactions[k].accession_number = LastRecord.accession_number
                /\ transactions[k].insider_id = last.insider_id
                /\ transactions[k].transaction_date = ParseDate(LastRecord.transaction_date)
                /\ SameDecimal(transactions[k].shares_traded, LastRecord.shares_traded))
    /\ [][(pc = "records" /\ last'.outcome = "duplicate") =>
            /\ UNCHANGED <<companies, insiders, transactions>>
            /\ IF ti < Len(RecordsOf(mi))
               THEN pc' = "records" /\ mi' = mi /\ ti' = ti + 1
               ELSE IF mi < window[2]
               THEN pc' = "loop" /\ mi' = mi + 1
               ELSE pc' = "done"]_vars

\* The first line of the second filing was a duplicate; its second line is
\* next.
C17_Witness ==
    /\ last.outcome = "duplicate"
    /\ last.filing = 2
    /\ last.index = 1
    /\ pc = "records"
    /\ mi = 2
    /\ ti = 2

\* C18: parse_form4 of a text that is not parsable XML is the empty sequence;
\* the step of ingest that fetched such a document leaves the three tables
\* as they are and goes on to the next filing of the window, or ends the run
\* normally after the last one.
C18_MalformedDocumentSkipped ==
    /\ \A k \in 1..Len(Catalogue) :
           ~Catalogue[k].wellformed => ParseForm4(Catalogue[k]) = <<>>
    /\ [][(pc = "loop" /\ ~DocAt(mi).wellformed /\ fetch'.pc = "returned") =>
            /\ UNCHANGED <<companies, insiders, transactions>>
            /\ IF mi < window[2]
               THEN pc' = "loop" /\ mi' = mi + 1
               ELSE pc' = "done"]_vars

\* The first filing of the window is not XML; the sale of the second one
\* was stored in the same run.
C18_Witness ==
    /\ window = <<1, 2>>
    /\ ~DocAt(1).wellformed
    /\ last.outcome = "stored"
    /\ last.filing = 2
    /\ Len(transactions) = atStart[3] + 1
    /\ pc = "done"

\* C19: a run that aborted did so for a cause of the Registry Client: the
\* metadata query or a document fetch raised (a client error, exhausted
\* retries, missing metadata); no record of a parsed document made ingest raise.
C19_AbortOnlyForClientCause ==
    pc = "aborted" =>
        /\ fetch.pc = "raised"
        /\ fetch.err \in {"HTTPError", "RequestException", "RuntimeError", "ValueError"}
        /\ last.outcome # "raised"

\* C20: when two workers both look up an issuer CIK or an owner CIK that is
\* not stored yet, the store ends with one row for it, and the worker that
\* did not create it goes on with the winner's row: no worker's run fails
\* on the INSERT of a Company or an Insider.
C20_CreationRaceHasOneWinner ==
    /\ \A i, j \in 1..Len(companies) :
           SameText(companies[i].issuer_cik, companies[j].issuer_cik) => i = j
    /\ \A i, j \in 1..Len(insiders) :
           SameText(insiders[i].owner_cik, insiders[j].owner_cik) => i = j
    /\ \A w \in DOMAIN workers :
           ~(workers[w].pc = "failed" /\ workers[w].err = "IntegrityError")

\* The stored rows that carry the de-duplication tuple of the record worker w
\* has processed.
RowsOfJob(w) ==
    LET candidate == CreateTransaction(workers[w].company_id, workers[w].insider_id,
                                       JobOf(w))[1]
    IN  {k \in 1..Len(transactions) : SameKey(transactions[k], candidate)}

\* C21: when workers insert the same transaction (same accession number,
\* insider, transaction date and shares), one row is stored: a worker that
\* has processed a record, storing it or skipping it as a duplicate, leaves
\* the store with exactly one row for the record's tuple, as a single run
\* does, and no worker fails on the insert.
C21_InsertRaceStoresOneRow ==
    \A w \in DOMAIN workers :
        /\ (workers[w].pc = "done" /\ workers[w].outcome \in {"stored", "duplicate"}) =>
               Cardinality(RowsOfJob(w)) = 1
        /\ workers[w].pc = "failed" => workers[w].jobs > 0 /\ workers[w].outcome = "raised"

\* ------------------------------------------------------ the derived value
\* parse_form4 on a document with one non-derivative entry whose shares and
\* price elements hold any of the texts below, and the ingestion of the
\* record it returns into an empty store.

\* What a transactionShares or transactionPricePerShare element can hold:
\* no element (None), plain decimals, signed, padded, exponent and grouped
\* forms, the names of Decimal's special values, and texts that are no number.
ValueTexts ==
    {None,
     <<"1", "0", "0">>, <<"1", "2", ".", "5", "0">>, <<"0">>, <<"-", "3">>,
     <<" ", "7", " ">>, <<"1", "e", "2">>, <<"1", "_", "0">>,
     <<"N", "a", "N">>, <<"s", "N", "a", "N">>,
     <<"I", "n", "f", "i", "n", "i", "t", "y">>,
     <<"a", "b", "c">>, <<" ">>, <<"1", ".", "2", ".", "3">>}

\* The document whose one entry has these shares and price texts.
ValueDoc(shares, price) ==
    [BaseDoc EXCEPT !.nonDerivativeTable =
        <<[Sale EXCEPT !.transactionShares = shares,
                       !.transactionPricePerShare = price]>>]

\* parse_form4(raw) for such a document: the records it returns, or the
\* InvalidOperation that leaves it.
Normalize(shares, price) ==
    /\ normalized.status = "none"
    /\ normalized' =
           IF ParseForm4Raises(ValueDoc(shares, price))
           THEN [status |-> "raised", records |-> <<>>]
           ELSE [status |-> "returned", records |-> ParseForm4(ValueDoc(shares, price))]
    /\ UNCHANGED <<ingestVars, clientVars, fetchVars, workers>>

\* The loop body of ingest_form4_filings for the records parse_form4 returned
\* (here one), with the defaults of the filing's metadata.
StoreNormalized ==
    /\ normalized.status = "returned"
    /\ LET records == ApplyMetadataDefaults(normalized.records, MetadataOf(1, BaseDoc))
           r == IngestRecord(db, records[1])
       IN  /\ companies' = r.db.companies
           /\ insiders' = r.db.insiders
           /\ transactions' = r.db.transactions
    /\ normalized' = [normalized EXCEPT !.status = "ingested"]
    /\ UNCHANGED <<registry, pc, window, mi, ti, runs, rerun, atStart, last>>
    /\ UNCHANGED <<clientVars, fetchVars, workers>>

InitValue ==
    /\ registry = <<1>>
    /\ companies = <<>>
    /\ insiders = <<>>
    /\ transactions = <<>>
    /\ pc = "idle"
    /\ window = <<0, 0>>
    /\ mi = 0
    /\ ti = 0
    /\ runs = 0
    /\ rerun = FALSE
    /\ atStart = Counts
    /\ last = NoLast
    /\ req = NoRequest
    /\ sent = 0
    /\ rate = DefaultRate
    /\ hits = 0
    /\ fetch = NoFetch
    /\ workers = NoWorkers
    /\ normalized = NotNormalized

NextValue ==
    \/ \E shares \in ValueTexts, price \in ValueTexts : Normalize(shares, price)
    \/ StoreNormalized

SpecValue == InitValue /\ [][NextValue]_vars

\* A finite Decimal, which is what a number of shares or a price is.
IsNumber(d) == Len(d) = 2

\* transaction_value_usd of a record or a row is the exact product of its
\* shares and price when both are numbers, and absent otherwise.
ValueAsSpecified(r) ==
    IF IsNumber(r.shares_traded) /\ IsNumber(r.share_price)
    THEN /\ IsNumber(r.transaction_value_usd)
         /\ r.transaction_value_usd[1] = r.shares_traded[1] * r.share_price[1]
         /\ r.transaction_value_usd[2] = r.shares_traded[2] + r.share_price[2]
    ELSE r.transaction_value_usd = None

\* C22: for every normalized record and every stored row,
\* transaction_value_usd is present exactly when both shares traded and price
\* per share are present and numeric, and then equals shares * price exactly
\* (shares 100, price 12.50 gives 1250.00); otherwise it is absent.
C22_DerivedValue ==
    /\ \A i \in 1..Len(normalized.records) : ValueAsSpecified(normalized.records[i])
    /\ \A k \in 1..Len(transactions) : ValueAsSpecified(transactions[k])

\* The same for the records whose shares and price, when present, are numbers.
C22_DerivedValueOfNumbers ==
    /\ \A i \in 1..Len(normalized.records) :
           LET r == normalized.records[i]
           IN  (/\ r.shares_traded = None \/ IsNumber(r.shares_traded)
                /\ r.share_price = None \/ IsNumber(r.share_price))
               => ValueAsSpecified(r)
    /\ \A k \in 1..Len(transactions) :
           LET r == transactions[k]
           IN  (/\ r.shares_traded = None \/ IsNumber(r.shares_traded)
                /\ r.share_price = None \/ IsNumber(r.share_price))
               => ValueAsSpecified(r)

\* 100 shares at 12.50 are stored with the value 1250.00.
C22_Example ==
    /\ Len(transactions) = 1
    /\ transactions[1].shares_traded = <<100, 0>>
    /\ transactions[1].share_price = <<1250, -2>>
    /\ transactions[1].transaction_value_usd = <<125000, -2>>

====
